---- MODULE Spec2Model ----
(***************************************************************************)
(* Clark & Wright savings heuristic and the round-trip initializer of      *)
(* vrpy/clark_wright.py, as a state machine.                               *)
(*                                                                         *)
(* Python objects are kept by identity: routeObj is the heap of route      *)
(* DiGraph objects, indexed by the customer whose round trip created the   *)
(* object, and route (self.route) maps a customer to the index of the      *)
(* object it points to, so that several customers alias one object.        *)
(*                                                                         *)
(* A cost is the pair [hi, lo] standing for hi * 10^10 + lo: the penalty   *)
(* 1e10 of RoundTrip does not fit TLC's 32-bit integers.                   *)
(* None is <<>> and a set option n is <<n>>.                               *)
(***************************************************************************)
EXTENDS Integers, Sequences, FiniteSets, TLC

VARIABLES G, load_capacity, duration, num_stops, savings, ordered_edges,
          route, routeObj, best_routes, best_value, processed_nodes,
          round_trips, pc, idx, merges, handled

vars == <<G, load_capacity, duration, num_stops, savings, ordered_edges,
          route, routeObj, best_routes, best_value, processed_nodes,
          round_trips, pc, idx, merges, handled>>

\* ------------------------------------------------------------ bounds
MaxEdges == 3
MaxCost == 2
MaxDemand == 2
MaxCapacity == 4
MaxTime == 2
MaxDuration == 8
MaxStops == 3

\* ------------------------------------------------------------ values
Source == "Source"
Sink == "Sink"
Depots == {Source, Sink}

None == <<>>
Some(n) == <<n>>
\* Python truthiness of an optional number: None and 0 are false.
Truthy(x) == x # None /\ x[1] # 0
Val(x) == x[1]

EmptyDict == <<>>

Range(s) == {s[n] : n \in DOMAIN s}

\* numbers of the form hi * 10^10 + lo
Num(n) == [hi |-> 0, lo |-> n]
Penalty == [hi |-> 1, lo |-> 0]
Plus(x, y) == [hi |-> x.hi + y.hi, lo |-> x.lo + y.lo]
Minus(x, y) == [hi |-> x.hi - y.hi, lo |-> x.lo - y.lo]
Less(x, y) == x.hi < y.hi \/ (x.hi = y.hi /\ x.lo < y.lo)
Leq(x, y) == x = y \/ Less(x, y)

\* ------------------------------------------------------------ Network
HasEdge(g, u, v) == <<u, v>> \in DOMAIN g.edge
Cost(g, u, v) == g.edge[<<u, v>>].cost
Time(g, u, v) == g.edge[<<u, v>>].time
Demand(g, v) == g.node[v].demand
ServiceTime(g, v) == g.node[v].service_time

\* G.nodes() without the depots, in enumeration order
RECURSIVE CustomerSeq(_)
CustomerSeq(ns) ==
  IF ns = <<>> THEN <<>>
  ELSE IF Head(ns) \in Depots THEN CustomerSeq(Tail(ns))
       ELSE <<Head(ns)>> \o CustomerSeq(Tail(ns))

Customers(g) == Range(g.nodes) \ Depots

\* G.edges(): for each node in node order, its successors in adjacency order
RECURSIVE EdgesFrom(_, _)
EdgesFrom(u, ss) ==
  IF ss = <<>> THEN <<>> ELSE <<<<u, Head(ss)>>>> \o EdgesFrom(u, Tail(ss))

RECURSIVE EdgeSeq(_, _)
EdgeSeq(g, ns) ==
  IF ns = <<>> THEN <<>>
  ELSE EdgesFrom(Head(ns), g.succ[Head(ns)]) \o EdgeSeq(g, Tail(ns))

Edges(g) == EdgeSeq(g, g.nodes)

\* G.add_edge(u, v, cost=c) between two nodes already in G
AddEdge(g, u, v, c) ==
  IF HasEdge(g, u, v)
  THEN [g EXCEPT !.edge[<<u, v>>] = [cost |-> c] @@ @]
  ELSE [g EXCEPT !.succ[u] = Append(@, v),
                 !.edge = (<<u, v>> :> [cost |-> c]) @@ @]

\* ------------------------------------------------------------ route DiGraph
\* DiGraph(**attrs)
NewDiGraph(attrs) == [nodes |-> {}, edge |-> EmptyDict, graph |-> attrs]

\* DiGraph.add_edge(u, v, **attrs)
RouteAddEdge(r, u, v, attrs) ==
  [r EXCEPT !.nodes = @ \cup {u, v},
            !.edge = IF <<u, v>> \in DOMAIN @
                     THEN [@ EXCEPT ![<<u, v>>] = attrs @@ @]
                     ELSE (<<u, v>> :> attrs) @@ @]

\* networkx.add_path(route, path)
RECURSIVE add_path(_, _)
add_path(r, path) ==
  IF Len(path) < 2
  THEN [r EXCEPT !.nodes = @ \cup Range(path)]
  ELSE add_path(RouteAddEdge(r, path[1], path[2], EmptyDict), Tail(path))

\* DiGraph.remove_edge(u, v)
remove_edge(r, u, v) ==
  [r EXCEPT !.edge = [e \in (DOMAIN @) \ {<<u, v>>} |-> @[e]]]

predecessors(r, v) == {e[1] : e \in {f \in DOMAIN r.edge : f[2] = v}}
successors(r, v) == {e[2] : e \in {f \in DOMAIN r.edge : f[1] = v}}

\* ------------------------------------------------------------ ClarkWright
\* initialize_routes: one round trip per customer, in node order; the
\* lookup of a missing depot edge raises and leaves the loop.
round_trip(v) ==
  LET round_trip_cost == Plus(Cost(G, Source, v), Cost(G, v, Sink))
      r0 == add_path(NewDiGraph([cost |-> round_trip_cost]), <<Source, v, Sink>>)
      r1 == IF Truthy(load_capacity)
            THEN [r0 EXCEPT !.graph = [load |-> Demand(G, v)] @@ @]
            ELSE r0
  IN  IF Truthy(duration)
      THEN [r1 EXCEPT !.graph =
              [time |-> ServiceTime(G, v) + Time(G, Source, v) + Time(G, v, Sink)] @@ @]
      ELSE r1

RECURSIVE initialize_from(_, _)
initialize_from(vs, st) ==
  IF vs = <<>> THEN st
  ELSE LET v == Head(vs) IN
       IF ~(HasEdge(G, Source, v) /\ HasEdge(G, v, Sink))
       THEN [st EXCEPT !.ok = FALSE]
       ELSE initialize_from(Tail(vs),
              [st EXCEPT !.route = (v :> v) @@ @,
                         !.routeObj = (v :> round_trip(v)) @@ @])

initialize_routes ==
  initialize_from(CustomerSeq(G.nodes),
                  [route |-> route, routeObj |-> routeObj, ok |-> TRUE])

\* get_savings: the savings dict keeps its keys in insertion order
saving(i, j) == Minus(Plus(Cost(G, i, Sink), Cost(G, Source, j)), Cost(G, i, j))

RECURSIVE savings_from(_, _)
savings_from(es, sv) ==
  IF es = <<>> THEN sv
  ELSE LET i == Head(es)[1]
           j == Head(es)[2]
       IN  IF i # Source /\ j # Sink
           THEN IF ~(HasEdge(G, i, Sink) /\ HasEdge(G, Source, j))
                THEN [sv EXCEPT !.ok = FALSE]
                ELSE savings_from(Tail(es),
                       [sv EXCEPT !.keys = IF <<i, j>> \in DOMAIN sv.val
                                           THEN @ ELSE Append(@, <<i, j>>),
                                  !.val = (<<i, j>> :> saving(i, j)) @@ @])
           ELSE savings_from(Tail(es), sv)

\* sorted(keys, key=val.get, reverse=True): stable, greatest first
RECURSIVE insert_desc(_, _, _)
insert_desc_before_equal(s, e, val) ==
  IF s = <<>> THEN <<e>>
  ELSE IF Leq(val[Head(s)], val[e]) THEN <<e>> \o s
       ELSE <<Head(s)>> \o insert_desc(Tail(s), e, val)

insert_desc(s, e, val) ==
  IF s = <<>> THEN <<e>>
  ELSE IF Less(val[Head(s)], val[e]) THEN <<e>> \o s
       ELSE <<Head(s)>> \o insert_desc(Tail(s), e, val)

RECURSIVE sorted_desc(_, _)
sorted_desc(keys, val) ==
  IF keys = <<>> THEN <<>>
  ELSE insert_desc(sorted_desc(SubSeq(keys, 1, Len(keys) - 1), val),
                   keys[Len(keys)], val)

get_savings ==
  LET sv == savings_from(Edges(G), [keys |-> savings.keys, val |-> savings.val, ok |-> TRUE])
  IN  [savings |-> [keys |-> sv.keys, val |-> sv.val],
       ordered_edges |-> IF sv.ok THEN sorted_desc(sv.keys, sv.val) ELSE ordered_edges,
       ok |-> sv.ok]

\* the tests of constraints_met, in the order of the code
in_route(r, new_node) == new_node \in r.nodes

over_capacity(r, new_node) ==
  Truthy(load_capacity)
  /\ r.graph.load + Demand(G, new_node) > Val(load_capacity)

over_duration(r, existing_node, new_node) ==
  Truthy(duration)
  /\ r.graph.time + Time(G, existing_node, new_node) + Time(G, new_node, Sink)
       + ServiceTime(G, new_node) - Time(G, existing_node, Sink) > Val(duration)

over_stops(r) ==
  Truthy(num_stops)
  /\ Cardinality(r.nodes) - 2 + 1 > Val(num_stops)

constraints_met_no_capacity(existing_node, new_node) ==
  LET r == routeObj[route[existing_node]] IN
  ~in_route(r, new_node) /\ ~over_duration(r, existing_node, new_node) /\ ~over_stops(r)

constraints_met_no_duration(existing_node, new_node) ==
  LET r == routeObj[route[existing_node]] IN
  ~in_route(r, new_node) /\ ~over_capacity(r, new_node) /\ ~over_stops(r)

constraints_met_stops_off_by_one(existing_node, new_node) ==
  LET r == routeObj[route[existing_node]] IN
  /\ ~in_route(r, new_node) /\ ~over_capacity(r, new_node)
  /\ ~over_duration(r, existing_node, new_node)
  /\ ~(Truthy(num_stops) /\ Cardinality(r.nodes) - 2 > Val(num_stops))

\* constraints_met(existing_node, new_node)
constraints_met(existing_node, new_node) ==
  LET r == routeObj[route[existing_node]] IN
  IF in_route(r, new_node) THEN FALSE
  ELSE IF over_capacity(r, new_node) THEN FALSE
  ELSE IF over_duration(r, existing_node, new_node) THEN FALSE
  ELSE IF over_stops(r) THEN FALSE
  ELSE TRUE

\* the three += right-hand sides of merge_route
sink_cost_delta_keeps_removed_edge(existing_node, new_node) ==
  Plus(Cost(G, existing_node, new_node), Cost(G, new_node, Sink))

source_cost_delta_as_sink(existing_node, new_node) ==
  Minus(Plus(Cost(G, existing_node, new_node), Cost(G, new_node, Sink)),
        Cost(G, existing_node, Sink))

time_delta_without_service(existing_node, new_node) ==
  Time(G, existing_node, new_node) + Time(G, new_node, Sink)
    - Time(G, existing_node, Sink)

sink_cost_delta(existing_node, new_node) ==
  Minus(Plus(Cost(G, existing_node, new_node), Cost(G, new_node, Sink)),
        Cost(G, existing_node, Sink))

source_cost_delta(existing_node, new_node) ==
  Minus(Plus(Cost(G, new_node, existing_node), Cost(G, Source, new_node)),
        Cost(G, Source, existing_node))

time_delta(existing_node, new_node) ==
  Time(G, existing_node, new_node) + Time(G, new_node, Sink)
    + ServiceTime(G, new_node) - Time(G, existing_node, Sink)

\* merge_route(existing_node, new_node, depot): the new values of the
\* attributes it assigns
merge_route(existing_node, new_node, depot) ==
  LET id == route[existing_node]
      r0 == routeObj[id]
      r1 == IF depot = Sink
            THEN [remove_edge(add_path(r0, <<existing_node, new_node, Sink>>),
                              existing_node, Sink)
                    EXCEPT !.graph.cost = Plus(@, sink_cost_delta(existing_node, new_node))]
            ELSE r0
      r2 == IF depot = Source
            THEN [remove_edge(add_path(r1, <<Source, new_node, existing_node>>),
                              Source, existing_node)
                    EXCEPT !.graph.cost = Plus(@, source_cost_delta(existing_node, new_node))]
            ELSE r1
      r3 == IF Truthy(load_capacity)
            THEN [r2 EXCEPT !.graph.load = @ + Demand(G, new_node)]
            ELSE r2
      r4 == IF Truthy(duration)
            THEN [r3 EXCEPT !.graph.time = @ + time_delta(existing_node, new_node)]
            ELSE r3
      p1 == Append(processed_nodes, new_node)
      p2 == IF existing_node \notin Range(p1) THEN Append(p1, existing_node) ELSE p1
  IN  [route |-> [route EXCEPT ![new_node] = id],
       routeObj |-> [routeObj EXCEPT ![id] = r4],
       processed_nodes |-> p2,
       merges |-> Append(merges, [existing |-> existing_node, new |-> new_node,
                                  depot |-> depot])]

\* process_edge(i, j)
sink_side_any_position(i, j) ==
  /\ j \notin Range(processed_nodes)
  /\ constraints_met(i, j)

sink_side_ignores_processed(i, j) ==
  /\ constraints_met(i, j)
  /\ i \in predecessors(routeObj[route[i]], Sink)

sink_side(i, j) ==
  /\ j \notin Range(processed_nodes)
  /\ constraints_met(i, j)
  /\ i \in predecessors(routeObj[route[i]], Sink)

source_side_ignores_processed(i, j) ==
  /\ HasEdge(G, j, i)
  /\ constraints_met(j, i)
  /\ j \in successors(routeObj[route[j]], Source)

source_side_any_position(i, j) ==
  /\ HasEdge(G, j, i)
  /\ i \notin Range(processed_nodes)
  /\ constraints_met(j, i)

source_side(i, j) ==
  /\ HasEdge(G, j, i)
  /\ i \notin Range(processed_nodes)
  /\ constraints_met(j, i)
  /\ j \in successors(routeObj[route[j]], Source)

\* the Source-side test placed before the Sink-side one
process_edge_source_first(i, j) ==
  IF source_side(i, j) THEN merge_route(j, i, Source)
  ELSE IF sink_side(i, j) THEN merge_route(i, j, Sink)
  ELSE [route |-> route, routeObj |-> routeObj,
        processed_nodes |-> processed_nodes, merges |-> merges]

\* a skipped candidate leaves j marked as processed
process_edge_marks_skipped(i, j) ==
  IF sink_side(i, j) THEN merge_route(i, j, Sink)
  ELSE IF source_side(i, j) THEN merge_route(j, i, Source)
  ELSE [route |-> route, routeObj |-> routeObj,
        processed_nodes |-> Append(processed_nodes, j), merges |-> merges]

process_edge(i, j) ==
  IF sink_side(i, j) THEN merge_route(i, j, Sink)
  ELSE IF source_side(i, j) THEN merge_route(j, i, Source)
  ELSE [route |-> route, routeObj |-> routeObj,
        processed_nodes |-> processed_nodes, merges |-> merges]

\* update_routes: list(set(self.route.values())) enumerates the distinct
\* route objects in an order the hash of their addresses decides
RECURSIVE sum_cost(_, _)
sum_cost(ids, objs) ==
  IF ids = <<>> THEN Num(0)
  ELSE Plus(sum_cost(SubSeq(ids, 1, Len(ids) - 1), objs), objs[ids[Len(ids)]].graph.cost)

DistinctRoutes == {route[v] : v \in DOMAIN route}

Orders(S) == {o \in [1..Cardinality(S) -> S] : \A x \in S : \E n \in DOMAIN o : o[n] = x}

\* every entry of self.route.values(), without set()
update_routes_per_customer(order) ==
  LET vs == CustomerSeq(G.nodes)
      best == best_routes \o [n \in DOMAIN vs |-> route[vs[n]]]
  IN  [routeObj |-> routeObj, best_routes |-> best,
       best_value |-> sum_cost(best, routeObj)]

\* route_id left at 1 for every route
update_routes_one_name(order) ==
  LET named == [id \in DOMAIN routeObj |->
                  IF \E n \in DOMAIN order : order[n] = id
                  THEN [routeObj[id] EXCEPT !.graph = [name |-> 1] @@ @]
                  ELSE routeObj[id]]
      best == best_routes \o order
  IN  [routeObj |-> named, best_routes |-> best, best_value |-> sum_cost(best, named)]

update_routes(order) ==
  LET named == [id \in DOMAIN routeObj |->
                  IF \E n \in DOMAIN order : order[n] = id
                  THEN [routeObj[id] EXCEPT !.graph =
                          [name |-> CHOOSE n \in DOMAIN order : order[n] = id] @@ @]
                  ELSE routeObj[id]]
      best == best_routes \o order
  IN  [routeObj |-> named, best_routes |-> best, best_value |-> sum_cost(best, named)]

\* ------------------------------------------------------------ RoundTrip
\* the cost RoundTrip.run takes for a depot edge: its cost in G, or the
\* high cost of the edge it creates
depot_cost_no_penalty(g, u, v) == IF HasEdge(g, u, v) THEN Cost(g, u, v) ELSE Num(0)

depot_cost_small_penalty(g, u, v) == IF HasEdge(g, u, v) THEN Cost(g, u, v) ELSE Num(10)

depot_cost(g, u, v) == IF HasEdge(g, u, v) THEN Cost(g, u, v) ELSE Penalty

\* one iteration of the loop of RoundTrip.run, for customer v
round_trip_step(st, v) ==
  LET route_id == st.route_id + 1
      has1 == HasEdge(st.G, Source, v)
      cost_1 == depot_cost(st.G, Source, v)
      g1 == IF has1 THEN st.G ELSE AddEdge(st.G, Source, v, cost_1)
      has2 == HasEdge(g1, v, Sink)
      cost_2 == depot_cost(g1, v, Sink)
      g2 == IF has2 THEN g1 ELSE AddEdge(g1, v, Sink, cost_2)
      total_cost == Plus(cost_1, cost_2)
      r0 == NewDiGraph([name |-> route_id, cost |-> total_cost])
      r1 == RouteAddEdge(r0, Source, v, [cost |-> cost_1])
      r2 == RouteAddEdge(r1, v, Sink, [cost |-> cost_2])
  IN  [G |-> g2, route_id |-> route_id,
       route |-> (v :> v) @@ st.route,
       routeObj |-> (v :> r2) @@ st.routeObj,
       round_trips |-> Append(st.round_trips, v)]

RECURSIVE round_trip_from(_, _)
round_trip_from(vs, st) ==
  IF vs = <<>> THEN st
  ELSE round_trip_from(Tail(vs), round_trip_step(st, Head(vs)))

round_trip_run ==
  round_trip_from(CustomerSeq(G.nodes),
                  [G |-> G, route_id |-> 0, route |-> route, routeObj |-> routeObj,
                   round_trips |-> round_trips])

\* ------------------------------------------------------------ inputs
CustomerNames == {"a", "b", "c"}
NodeOrder == <<Source, "a", "b", "c", Sink>>
\* order in which the edges out of a node were added
AdjOrder == <<Sink, "c", "a", "b">>

CustPairs == CustomerNames \X CustomerNames
EdgeSets == {E \in SUBSET CustPairs : Cardinality(E) <= MaxEdges}
LoopFree(E) == \A e \in E : e[1] # e[2]
\* the customer edges of the constrained instances
ChainPairs == {<<"a", "b">>, <<"b", "a">>, <<"b", "c">>, <<"c", "a">>}
ChainEdgeSets == {E \in SUBSET ChainPairs : Cardinality(E) <= MaxEdges}

DepotOutCost == [a |-> 3, b |-> 4, c |-> 5]
DepotInCost == [a |-> 4, b |-> 6, c |-> 3]
DepotTime == [a |-> 1, b |-> 2, c |-> 1]
DepotInTimeSkew == [a |-> 2, b |-> 1, c |-> 3]
ServiceTimes == [a |-> 0, b |-> 1, c |-> 1]
UnitDemand == [v \in CustomerNames |-> 1]

Filter(s, S) == SelectSeq(s, LAMBDA x : x \in S)

\* the Network with customer edges E and depot edges DS (from Source) and
\* DK (to Sink)
MakeG(E, DS, DK, cS, cK, cE, tS, tK, tE, dem, svc) ==
  [nodes |-> NodeOrder,
   succ  |-> [n \in Range(NodeOrder) |->
                IF n = Source THEN Filter(NodeOrder, DS)
                ELSE IF n = Sink THEN <<>>
                ELSE Filter(AdjOrder, {m \in CustomerNames : <<n, m>> \in E}
                                        \cup (IF n \in DK THEN {Sink} ELSE {}))],
   edge  |-> [e \in E \cup {<<Source, v>> : v \in DS} \cup {<<v, Sink>> : v \in DK} |->
                IF e[1] = Source THEN [cost |-> Num(cS[e[2]]), time |-> tS[e[2]]]
                ELSE IF e[2] = Sink THEN [cost |-> Num(cK[e[1]]), time |-> tK[e[1]]]
                ELSE [cost |-> Num(cE[e]), time |-> tE[e]]],
   node  |-> [n \in Range(NodeOrder) |->
                IF n \in Depots THEN EmptyDict
                ELSE [demand |-> dem[n], service_time |-> svc[n]]]]

Ones(E) == [e \in E |-> 1]

\* the attributes of a fresh instance (__init__), for either class
Fresh(prog) ==
  /\ savings = [keys |-> <<>>, val |-> EmptyDict]
  /\ ordered_edges = <<>>
  /\ route = EmptyDict
  /\ routeObj = EmptyDict
  /\ best_routes = <<>>
  /\ best_value = None
  /\ processed_nodes = <<>>
  /\ round_trips = <<>>
  /\ merges = <<>>
  /\ handled = <<>>
  /\ idx = 0
  /\ pc = prog

\* unconstrained instances, every edge cost free
InitCost ==
  /\ \E E \in EdgeSets : \E cE \in [E -> 1..MaxCost] :
       G = MakeG(E, CustomerNames, CustomerNames, DepotOutCost, DepotInCost, cE,
                 DepotTime, DepotTime, Ones(E), UnitDemand, ServiceTimes)
  /\ load_capacity = None /\ duration = None /\ num_stops = None

\* capacity-constrained instances, demands and capacity free
InitLoad ==
  /\ \E E \in ChainEdgeSets : \E dem \in [CustomerNames -> 0..MaxDemand] :
       G = MakeG(E, CustomerNames, CustomerNames, DepotOutCost, DepotInCost, Ones(E),
                 DepotTime, DepotTime, Ones(E), dem, ServiceTimes)
  /\ \E q \in -1..MaxCapacity : load_capacity = Some(q)
  /\ duration = None /\ num_stops = None

\* duration-constrained instances, edge times and duration free, depot
\* times symmetric or not
InitTime ==
  /\ \E E \in ChainEdgeSets : \E tE \in [E -> 1..MaxTime] :
     \E tK \in {DepotTime, DepotInTimeSkew} :
       G = MakeG(E, CustomerNames, CustomerNames, DepotOutCost, DepotInCost, Ones(E),
                 DepotTime, tK, tE, UnitDemand, ServiceTimes)
  /\ \E d \in -1..MaxDuration : duration = Some(d)
  /\ load_capacity = None /\ num_stops = None

\* stop-constrained instances
InitStops ==
  /\ \E E \in ChainEdgeSets : \E cE \in [E -> 1..MaxCost] :
       G = MakeG(E, CustomerNames, CustomerNames, DepotOutCost, DepotInCost, cE,
                 DepotTime, DepotTime, Ones(E), UnitDemand, ServiceTimes)
  /\ \E n \in -1..MaxStops : num_stops = Some(n)
  /\ load_capacity = None /\ duration = None

\* the 4-customer scenario: depot costs 10, cost 4 between neighbours of the
\* line a - b - c - d and 100 between the others, no limit
ScenarioNames == {"a", "b", "c", "d"}
ScenarioOrder == <<Source, "a", "b", "c", "d", Sink>>
ScenarioAdjOrder == <<"b", "a", "c", "d", Sink>>
ScenarioPairs == {e \in ScenarioNames \X ScenarioNames : e[1] # e[2]}
ScenarioNeighbours ==
  {<<"a", "b">>, <<"b", "a">>, <<"b", "c">>, <<"c", "b">>, <<"c", "d">>, <<"d", "c">>}

ScenarioG(E) ==
  [nodes |-> ScenarioOrder,
   succ  |-> [n \in Range(ScenarioOrder) |->
                IF n = Source THEN Filter(ScenarioOrder, ScenarioNames)
                ELSE IF n = Sink THEN <<>>
                ELSE Filter(ScenarioAdjOrder,
                            {m \in ScenarioNames : <<n, m>> \in E} \cup {Sink})],
   edge  |-> [e \in E \cup {<<Source, v>> : v \in ScenarioNames}
                      \cup {<<v, Sink>> : v \in ScenarioNames} |->
                IF e[1] = Source \/ e[2] = Sink THEN [cost |-> Num(10), time |-> 1]
                ELSE IF e \in ScenarioNeighbours THEN [cost |-> Num(4), time |-> 1]
                ELSE [cost |-> Num(100), time |-> 1]],
   node  |-> [n \in Range(ScenarioOrder) |->
                IF n \in Depots THEN EmptyDict
                ELSE [demand |-> 1, service_time |-> 0]]]

InitScenario ==
  /\ \E E \in {F \in SUBSET ScenarioPairs : Cardinality(F) <= MaxEdges} \cup {ScenarioPairs} :
       G = ScenarioG(E)
  /\ load_capacity = None /\ duration = None /\ num_stops = None

\* instances with any combination of the three limits, each unset, 0 or
\* a value that binds
InitCombined ==
  /\ \E E \in ChainEdgeSets : \E tK \in {DepotTime, DepotInTimeSkew} :
       G = MakeG(E, CustomerNames, CustomerNames, DepotOutCost, DepotInCost, Ones(E),
                 DepotTime, tK, Ones(E), UnitDemand, ServiceTimes)
  /\ load_capacity \in {None, Some(0), Some(2)}
  /\ duration \in {None, Some(0), Some(6)}
  /\ num_stops \in {None, Some(0), Some(2)}

Init ==
  /\ InitCost \/ InitLoad \/ InitTime \/ InitStops \/ InitScenario \/ InitCombined
  /\ Fresh("initialize_routes")

\* Networks for RoundTrip: any depot edge may be missing
InitRoundTrip ==
  /\ \E E \in {F \in EdgeSets : LoopFree(F) /\ Cardinality(F) <= 1} :
     \E DS \in SUBSET CustomerNames : \E DK \in SUBSET CustomerNames :
     \E cS \in [CustomerNames -> 1..MaxCost] : \E cK \in [CustomerNames -> 1..MaxCost] :
       G = MakeG(E, DS, DK, cS, cK, Ones(E),
                 DepotTime, DepotTime, Ones(E), UnitDemand, ServiceTimes)
  /\ load_capacity = None /\ duration = None /\ num_stops = None
  /\ Fresh("round_trip")

\* ------------------------------------------------------------ actions
\* ClarkWright.run, line by line
RunInitializeRoutes ==
  /\ pc = "initialize_routes"
  /\ LET r == initialize_routes IN
       /\ route' = r.route
       /\ routeObj' = r.routeObj
       /\ pc' = IF r.ok THEN "get_savings" ELSE "raised"
  /\ UNCHANGED <<G, load_capacity, duration, num_stops, savings, ordered_edges,
                 best_routes, best_value, processed_nodes, round_trips, idx, merges, handled>>

RunGetSavings ==
  /\ pc = "get_savings"
  /\ LET r == get_savings IN
       /\ savings' = r.savings
       /\ ordered_edges' = r.ordered_edges
       /\ pc' = IF r.ok THEN "process_edge" ELSE "raised"
       /\ idx' = IF r.ok THEN 1 ELSE idx
  /\ processed_nodes' = <<>>
  /\ UNCHANGED <<G, load_capacity, duration, num_stops, route, routeObj,
                 best_routes, best_value, round_trips, merges, handled>>

\* the loop stepping over every other candidate
RunProcessEdge_skips_next ==
  /\ pc = "process_edge"
  /\ idx <= Len(ordered_edges)
  /\ LET r == process_edge(ordered_edges[idx][1], ordered_edges[idx][2]) IN
       /\ route' = r.route
       /\ routeObj' = r.routeObj
       /\ processed_nodes' = r.processed_nodes
       /\ merges' = r.merges
  /\ handled' = Append(handled, ordered_edges[idx])
  /\ idx' = idx + 2
  /\ UNCHANGED <<G, load_capacity, duration, num_stops, savings, ordered_edges,
                 best_routes, best_value, round_trips, pc>>

RunProcessEdge ==
  /\ pc = "process_edge"
  /\ idx <= Len(ordered_edges)
  /\ LET r == process_edge(ordered_edges[idx][1], ordered_edges[idx][2]) IN
       /\ route' = r.route
       /\ routeObj' = r.routeObj
       /\ processed_nodes' = r.processed_nodes
       /\ merges' = r.merges
  /\ handled' = Append(handled, ordered_edges[idx])
  /\ idx' = idx + 1
  /\ UNCHANGED <<G, load_capacity, duration, num_stops, savings, ordered_edges,
                 best_routes, best_value, round_trips, pc>>

RunUpdateRoutes ==
  /\ pc = "process_edge"
  /\ idx > Len(ordered_edges)
  /\ \E order \in Orders(DistinctRoutes) :
       LET r == update_routes(order) IN
         /\ routeObj' = r.routeObj
         /\ best_routes' = r.best_routes
         /\ best_value' = Some(r.best_value)
  /\ pc' = "done"
  /\ UNCHANGED <<G, load_capacity, duration, num_stops, savings, ordered_edges,
                 route, processed_nodes, round_trips, idx, merges, handled>>

\* RoundTrip.run
RoundTripRun ==
  /\ pc = "round_trip"
  /\ LET r == round_trip_run IN
       /\ G' = r.G
       /\ route' = r.route
       /\ routeObj' = r.routeObj
       /\ round_trips' = r.round_trips
  /\ pc' = "done"
  /\ UNCHANGED <<load_capacity, duration, num_stops, savings, ordered_edges,
                 best_routes, best_value, processed_nodes, idx, merges, handled>>

Next ==
  \/ RunInitializeRoutes
  \/ RunGetSavings
  \/ RunProcessEdge
  \/ RunUpdateRoutes

Spec == Init /\ [][Next]_vars

NextRoundTrip == RoundTripRun

SpecRoundTrip == InitRoundTrip /\ [][NextRoundTrip]_vars

\* either class, run on its own instance
InitBoth == Init \/ InitRoundTrip

NextBoth == Next \/ NextRoundTrip

SpecBoth == InitBoth /\ [][NextBoth]_vars

\* ------------------------------------------------------------ properties
PostInit == pc \in {"get_savings", "process_edge", "done"}

AllDepotEdges == \A v \in Customers(G) : HasEdge(G, Source, v) /\ HasEdge(G, v, Sink)

RouteCustomers(r) == r.nodes \ Depots

PathEdges(p) == {<<p[n], p[n + 1]>> : n \in 1..(Len(p) - 1)}

IsSimplePath(r) ==
  /\ Depots \subseteq r.nodes
  /\ RouteCustomers(r) # {}
  /\ \E o \in Orders(RouteCustomers(r)) :
       DOMAIN r.edge = PathEdges(<<Source>> \o o \o <<Sink>>)

RECURSIVE SetSum(_, _)
SetSum(S, f) ==
  IF S = {} THEN 0
  ELSE LET x == CHOOSE y \in S : TRUE IN f[x] + SetSum(S \ {x}, f)

RECURSIVE CostSum(_, _)
CostSum(S, f) ==
  IF S = {} THEN Num(0)
  ELSE LET x == CHOOSE y \in S : TRUE IN Plus(f[x], CostSum(S \ {x}, f))

\* sum of the Network costs of the edges of a route
PathCost(r) == CostSum(DOMAIN r.edge, [e \in DOMAIN r.edge |-> G.edge[e].cost])

\* sum of the Network times of the edges of a route and of the service
\* times of its customers
PathTime(r) ==
  SetSum(DOMAIN r.edge, [e \in DOMAIN r.edge |-> G.edge[e].time])
  + SetSum(RouteCustomers(r), [v \in RouteCustomers(r) |-> ServiceTime(G, v)])

SinkMerged == \E n \in DOMAIN merges : merges[n].depot = Sink
SourceMerged == \E n \in DOMAIN merges : merges[n].depot = Source

\* C1: once the round trips are built, every customer is a node of the
\* route it is assigned to and of no other assigned route, and every
\* assigned route is a simple path Source -> c1 -> ... -> ck -> Sink.
C1_RoutesPartitionCustomers ==
  (PostInit /\ AllDepotEdges) =>
    /\ \A v \in Customers(G) :
         /\ v \in DOMAIN route
         /\ v \in routeObj[route[v]].nodes
         /\ \A id \in DistinctRoutes \ {route[v]} : v \notin routeObj[id].nodes
    /\ \A id \in DistinctRoutes : IsSimplePath(routeObj[id])

C1_Witness ==
  /\ pc = "done"
  /\ SinkMerged /\ SourceMerged
  /\ \E id \in DistinctRoutes : Cardinality(RouteCustomers(routeObj[id])) = 3

OutputRoutes == Range(best_routes)

\* the round trip of v is the only thing its route object ever held
RoundTripTime(v) == ServiceTime(G, v) + Time(G, Source, v) + Time(G, v, Sink)

\* C2 as stated: with load_capacity set, every output route has
\* load <= load_capacity, whatever the demands and the capacity.
C2_LoadWithinCapacityAlways ==
  (pc = "done" /\ load_capacity # None) =>
    \A id \in OutputRoutes :
      /\ "load" \in DOMAIN routeObj[id].graph
      /\ routeObj[id].graph.load <= Val(load_capacity)

\* C2 amended: with load_capacity set to a nonzero value, every output
\* route has load <= load_capacity, except the untouched round trip of a
\* customer whose own demand exceeds load_capacity.
C2_LoadWithinCapacity ==
  (pc = "done" /\ Truthy(load_capacity)) =>
    \A id \in OutputRoutes :
      LET r == routeObj[id] IN
        (\/ Cardinality(RouteCustomers(r)) >= 2
         \/ \A v \in RouteCustomers(r) : Demand(G, v) <= Val(load_capacity))
        => /\ "load" \in DOMAIN r.graph
           /\ r.graph.load <= Val(load_capacity)

C2_Witness ==
  /\ pc = "done" /\ Truthy(load_capacity)
  /\ \E id \in OutputRoutes :
       /\ Cardinality(RouteCustomers(routeObj[id])) >= 2
       /\ routeObj[id].graph.load = Val(load_capacity)
  /\ \E id \in OutputRoutes :
       /\ RouteCustomers(routeObj[id]) = {id}
       /\ Demand(G, id) > Val(load_capacity)

\* C3 as stated: with duration set, every output route has
\* time <= duration, whatever the times and the duration.
C3_TimeWithinDurationAlways ==
  (pc = "done" /\ duration # None) =>
    \A id \in OutputRoutes :
      /\ "time" \in DOMAIN routeObj[id].graph
      /\ routeObj[id].graph.time <= Val(duration)

\* C3 amended: with duration set to a nonzero value, the time attribute of
\* every output route is <= duration, except for the untouched round trip
\* of a customer whose own round-trip time exceeds duration.
C3_TimeWithinDuration ==
  (pc = "done" /\ Truthy(duration)) =>
    \A id \in OutputRoutes :
      LET r == routeObj[id] IN
        (\/ Cardinality(RouteCustomers(r)) >= 2
         \/ \A v \in RouteCustomers(r) : RoundTripTime(v) <= Val(duration))
        => /\ "time" \in DOMAIN r.graph
           /\ r.graph.time <= Val(duration)

C3_Witness ==
  /\ pc = "done" /\ Truthy(duration)
  /\ \E id \in OutputRoutes :
       /\ Cardinality(RouteCustomers(routeObj[id])) >= 2
       /\ routeObj[id].graph.time = Val(duration)
  /\ \E id \in OutputRoutes :
       /\ RouteCustomers(routeObj[id]) = {id}
       /\ RoundTripTime(id) > Val(duration)

\* C4 as stated: with num_stops set, every output route has at most
\* num_stops customers, whatever the value of num_stops.
C4_StopsWithinLimitAlways ==
  (pc = "done" /\ num_stops # None) =>
    \A id \in OutputRoutes :
      Cardinality(RouteCustomers(routeObj[id])) <= Val(num_stops)

\* C4 amended: with num_stops set to a value >= 1, every output route has
\* at most num_stops customers.
C4_StopsWithinLimit ==
  (pc = "done" /\ num_stops # None /\ Val(num_stops) >= 1) =>
    \A id \in OutputRoutes :
      Cardinality(RouteCustomers(routeObj[id])) <= Val(num_stops)

C4_Witness ==
  /\ pc = "done" /\ num_stops = Some(2)
  /\ Cardinality(OutputRoutes) = 2
  /\ \E id \in OutputRoutes : Cardinality(RouteCustomers(routeObj[id])) = 2
  /\ Len(ordered_edges) = 3

\* C5: after run, best_routes holds each distinct assigned route exactly
\* once and best_value is the sum of their costs, each counted once.
C5_TotalCostCountsEachRouteOnce ==
  pc = "done" =>
    /\ Range(best_routes) = DistinctRoutes
    /\ Len(best_routes) = Cardinality(DistinctRoutes)
    /\ best_value = Some(CostSum(DistinctRoutes,
                                 [id \in DistinctRoutes |-> routeObj[id].graph.cost]))

C5_Witness ==
  /\ pc = "done"
  /\ Cardinality(DistinctRoutes) = 2
  /\ \E u, v \in DOMAIN route : u # v /\ route[u] = route[v]

\* C6: from initialization on, the cost attribute of every assigned route
\* is the sum of the Network costs of its edges; for a round trip that is
\* cost(Source, v) + cost(v, Sink).
C6_CostIsPathCost ==
  (PostInit /\ AllDepotEdges) =>
    /\ \A id \in DistinctRoutes : routeObj[id].graph.cost = PathCost(routeObj[id])
    /\ pc = "get_savings" =>
         \A v \in Customers(G) :
           routeObj[route[v]].graph.cost
             = [hi |-> 0, lo |-> G.edge[<<Source, v>>].cost.lo + G.edge[<<v, Sink>>].cost.lo]

C6_Witness ==
  /\ pc = "process_edge"
  /\ SinkMerged /\ SourceMerged
  /\ \E id \in DistinctRoutes : Cardinality(RouteCustomers(routeObj[id])) = 3

\* C7: the candidate list holds exactly the customer-to-customer edges of
\* the Network, each once, with savings cost(i,Sink) + cost(Source,j) -
\* cost(i,j), in non-increasing order of savings, equal savings in the
\* order the Network enumerates the edges.
CandidateEdges ==
  {e \in DOMAIN G.edge : e[1] \in Customers(G) /\ e[2] \in Customers(G)}

Pos(s, x) == CHOOSE n \in DOMAIN s : s[n] = x

ExpectedSavings(e) ==
  [hi |-> 0,
   lo |-> G.edge[<<e[1], Sink>>].cost.lo + G.edge[<<Source, e[2]>>].cost.lo
            - G.edge[e].cost.lo]

C7_CandidatesOrderedBySavings ==
  pc \in {"process_edge", "done"} =>
    /\ Range(ordered_edges) = CandidateEdges
    /\ Len(ordered_edges) = Cardinality(CandidateEdges)
    /\ \A e \in CandidateEdges : savings.val[e] = ExpectedSavings(e)
    /\ \A n \in 1..(Len(ordered_edges) - 1) :
         ExpectedSavings(ordered_edges[n]).lo >= ExpectedSavings(ordered_edges[n + 1]).lo
    /\ \A m, n \in DOMAIN ordered_edges :
         (m < n /\ ExpectedSavings(ordered_edges[m]) = ExpectedSavings(ordered_edges[n]))
           => Pos(Edges(G), ordered_edges[m]) < Pos(Edges(G), ordered_edges[n])

C7_Witness ==
  /\ pc = "process_edge" /\ idx = 1
  /\ Len(ordered_edges) = 3
  /\ ordered_edges # savings.keys
  /\ savings.val[ordered_edges[1]] = savings.val[ordered_edges[2]]
  /\ savings.val[ordered_edges[2]] # savings.val[ordered_edges[3]]

\* C8: with load_capacity set below the sum of the demands of any two
\* customers, no merge is applied and the output is the set of initial
\* round trips with their initial costs.
BelowEveryPairOfDemands ==
  /\ load_capacity # None
  /\ \A u, v \in Customers(G) :
       u # v => Val(load_capacity) < Demand(G, u) + Demand(G, v)

C8_NoMergeBelowPairOfDemands ==
  (PostInit /\ BelowEveryPairOfDemands) =>
    /\ merges = <<>>
    /\ \A v \in Customers(G) :
         /\ route[v] = v
         /\ DOMAIN routeObj[v].edge = {<<Source, v>>, <<v, Sink>>}
         /\ routeObj[v].graph.cost = Plus(Cost(G, Source, v), Cost(G, v, Sink))
    /\ pc = "done" => OutputRoutes = Customers(G)

\* C9: RoundTrip.run builds for every customer v exactly one route
\* Source -> v -> Sink of cost c1 + c2, where a depot edge missing from the
\* Network counts 10^10; a customer without edge to Sink gets a route of
\* cost >= 10^10.
C9_RoundTripPenalty ==
  [][pc = "round_trip" =>
       /\ pc' = "done"
       /\ Len(round_trips') = Cardinality(Customers(G))
       /\ \A v \in Customers(G) :
            LET c1 == IF <<Source, v>> \in DOMAIN G.edge
                      THEN G.edge[<<Source, v>>].cost ELSE [hi |-> 1, lo |-> 0]
                c2 == IF <<v, Sink>> \in DOMAIN G.edge
                      THEN G.edge[<<v, Sink>>].cost ELSE [hi |-> 1, lo |-> 0]
                r  == routeObj'[route'[v]]
            IN  /\ Cardinality({n \in DOMAIN round_trips' : round_trips'[n] = route'[v]}) = 1
                /\ \A u \in Customers(G) \ {v} : route'[u] # route'[v]
                /\ DOMAIN r.edge = {<<Source, v>>, <<v, Sink>>}
                /\ r.graph.cost = [hi |-> c1.hi + c2.hi, lo |-> c1.lo + c2.lo]
                /\ <<v, Sink>> \notin DOMAIN G.edge => r.graph.cost.hi >= 1
  ]_vars

C9_Witness ==
  /\ pc = "done"
  /\ \E v \in DOMAIN route :
       /\ routeObj[route[v]].graph.cost.hi = 1
       /\ routeObj[route[v]].edge[<<v, Sink>>].cost = Penalty
       /\ routeObj[route[v]].edge[<<Source, v>>].cost # Penalty
  /\ \E v \in DOMAIN route : routeObj[route[v]].graph.cost.hi = 0
  /\ \E v \in DOMAIN route : routeObj[route[v]].graph.cost.hi = 2

\* C10 as stated: with duration set, the time attribute of every assigned
\* route is the sum of the Network times of its edges plus the service
\* times of its customers, for every time assignment.
C10_TimeIsPathTimeAlways ==
  (PostInit /\ Truthy(duration)) =>
    \A id \in DistinctRoutes : routeObj[id].graph.time = PathTime(routeObj[id])

SymmetricTimes ==
  /\ \A v \in Customers(G) : Time(G, Source, v) = Time(G, v, Sink)
  /\ \A e \in CandidateEdges :
       HasEdge(G, e[2], e[1]) => Time(G, e[1], e[2]) = Time(G, e[2], e[1])

SourceMergedInto(id) ==
  \E n \in DOMAIN merges : merges[n].depot = Source /\ route[merges[n].existing] = id

\* C10 amended: the equality holds for every time assignment on a route
\* that only Sink-side merges have extended, and after Source-side merges
\* when the times are symmetric.
C10_TimeIsPathTime ==
  (PostInit /\ Truthy(duration)) =>
    \A id \in DistinctRoutes :
      (SymmetricTimes \/ ~SourceMergedInto(id))
        => routeObj[id].graph.time = PathTime(routeObj[id])

C10_Witness ==
  /\ pc = "process_edge" /\ Truthy(duration)
  /\ SymmetricTimes
  /\ \E id \in DistinctRoutes :
       /\ SourceMergedInto(id)
       /\ Cardinality(RouteCustomers(routeObj[id])) = 3

\* C11: after run, the output routes are the k distinct routes of the
\* assignment, each listed once, their names are pairwise distinct and the
\* set of names is exactly 1..k.
C11_NamesAreOneToK ==
  pc = "done" =>
    LET k == Cardinality(DistinctRoutes) IN
      /\ Len(best_routes) = k
      /\ OutputRoutes = DistinctRoutes
      /\ \A id \in OutputRoutes : "name" \in DOMAIN routeObj[id].graph
      /\ \A m, n \in DOMAIN best_routes :
           m # n => routeObj[best_routes[m]].graph.name # routeObj[best_routes[n]].graph.name
      /\ {routeObj[id].graph.name : id \in OutputRoutes} = 1..k

C11_Witness ==
  /\ pc = "done"
  /\ Cardinality(DistinctRoutes) = 2
  /\ merges # <<>>
  /\ Cardinality(Customers(G)) = 3

\* sum of the cost attributes of the distinct routes of an assignment
TotalCost(rt, objs) ==
  LET ids == {rt[v] : v \in DOMAIN rt}
  IN  CostSum(ids, [id \in ids |-> objs[id].graph.cost])

\* the step of process_edge on the current candidate applies a merge
MergeStep == pc = "process_edge" /\ Len(merges') = Len(merges) + 1

Candidate == ordered_edges[idx]

IsScenario == Range(G.nodes) = Range(ScenarioOrder)

\* C12: every merge applied for a candidate (i,j), on either side, leaves a
\* merged route whose cost is the combined cost of the two routes it
\* replaces minus savings(i,j), and lowers the sum of the costs of the
\* distinct routes by savings(i,j); in the 4-customer scenario the merge of
\* the round trips of a and b gives a route of cost 24 against 40.
C12_MergeLowersCostBySavings ==
  [][MergeStep =>
       LET i == Candidate[1]
           j == Candidate[2]
           m == merges'[Len(merges')]
           both == Plus(routeObj[route[i]].graph.cost, routeObj[route[j]].graph.cost)
           merged == routeObj'[route'[m.new]].graph.cost
       IN  /\ {m.existing, m.new} = {i, j}
           /\ route[i] # route[j]
           /\ route'[i] = route'[j]
           /\ merged = Minus(both, savings.val[<<i, j>>])
           /\ savings.val[<<i, j>>] = saving(i, j)
           /\ TotalCost(route', routeObj') =
                Minus(TotalCost(route, routeObj), savings.val[<<i, j>>])
           /\ (IsScenario /\ {i, j} = {"a", "b"} /\ merges = <<>>) =>
                /\ both = Num(40)
                /\ merged = Num(24)
                /\ savings.val[<<i, j>>] = Num(16)
  ]_vars

\* a and b were merged first at cost 24, then c was put before a by a
\* Source-side merge of savings -80
C12_Witness ==
  /\ IsScenario
  /\ Len(merges) = 2
  /\ merges[1] = [existing |-> "a", new |-> "b", depot |-> Sink]
  /\ merges[2] = [existing |-> "a", new |-> "c", depot |-> Source]
  /\ savings.val[<<"a", "b">>] = Num(16)
  /\ routeObj[route["a"]].graph.cost = Num(124)
  /\ TotalCost(route, routeObj) = Num(144)

\* the step of run that hands the current candidate to process_edge
ProcessStep == pc = "process_edge" /\ idx <= Len(ordered_edges) /\ idx' = idx + 1

\* legality of the two merges for candidate (i,j), in the state before the step
SinkLegal(i, j) ==
  /\ j \notin Range(processed_nodes)
  /\ <<i, Sink>> \in DOMAIN routeObj[route[i]].edge
  /\ constraints_met(i, j)

SourceLegal(i, j) ==
  /\ HasEdge(G, j, i)
  /\ i \notin Range(processed_nodes)
  /\ <<Source, j>> \in DOMAIN routeObj[route[j]].edge
  /\ constraints_met(j, i)

Moved == {v \in DOMAIN route : route'[v] # route[v]}

\* C13: the step for a candidate (i,j) applies at most one merge: at most one
\* customer changes route; when the Sink-side merge is legal it is the one
\* applied, and a Source-side merge is applied only when the Sink-side one
\* was not legal.
C13_AtMostOneMergeSinkFirst ==
  [][ProcessStep =>
       LET i == Candidate[1]
           j == Candidate[2]
           sinkMerge == [existing |-> i, new |-> j, depot |-> Sink]
           sourceMerge == [existing |-> j, new |-> i, depot |-> Source]
       IN  /\ merges' \in {merges, Append(merges, sinkMerge), Append(merges, sourceMerge)}
           /\ Cardinality(Moved) <= 1
           /\ SinkLegal(i, j) =>
                /\ merges' = Append(merges, sinkMerge)
                /\ Moved = {j}
           /\ merges' = Append(merges, sourceMerge) =>
                /\ ~SinkLegal(i, j)
                /\ Moved = {i}
  ]_vars

\* two round trips joined by edges both ways: both merges were legal and
\* the Sink-side one was applied
C13_Witness ==
  /\ Len(merges) = 1
  /\ merges[1].depot = Sink
  /\ handled[Len(handled)] = <<merges[1].existing, merges[1].new>>
  /\ HasEdge(G, merges[1].new, merges[1].existing)
  /\ load_capacity = None /\ duration = None /\ num_stops = None
  /\ route[merges[1].new] = route[merges[1].existing]

\* C14: the step for candidate (i,j) applies the Sink-side merge exactly
\* when, before it, j is not processed, i is the immediate predecessor of
\* Sink in route[i] and the feasibility check of j against route[i] passes;
\* afterwards route[i] is the same route object with j inserted between i
\* and Sink, i and j are processed and route[j] is route[i].
C14_SinkSideMerge ==
  [][ProcessStep =>
       LET i == Candidate[1]
           j == Candidate[2]
           applied == merges' = Append(merges, [existing |-> i, new |-> j, depot |-> Sink])
           before == routeObj[route[i]]
           after == routeObj'[route'[i]]
       IN  /\ applied <=> (/\ j \notin Range(processed_nodes)
                           /\ predecessors(before, Sink) = {i}
                           /\ constraints_met(i, j))
           /\ applied =>
                /\ route'[i] = route[i]
                /\ route'[j] = route[i]
                /\ after.nodes = before.nodes \cup {j}
                /\ DOMAIN after.edge =
                     (DOMAIN before.edge \ {<<i, Sink>>}) \cup {<<i, j>>, <<j, Sink>>}
                /\ <<i, Sink>> \notin DOMAIN after.edge
                /\ {i, j} \subseteq Range(processed_nodes')
                /\ Range(processed_nodes') = Range(processed_nodes) \cup {i, j}
  ]_vars

\* a second Sink-side merge, onto the end of a two-customer route, under a
\* capacity that the feasibility check had to pass
C14_Witness ==
  /\ Len(merges) = 2
  /\ merges[1].depot = Sink /\ merges[2].depot = Sink
  /\ merges[2].existing = merges[1].new
  /\ handled[Len(handled)] = <<merges[2].existing, merges[2].new>>
  /\ Truthy(load_capacity)
  /\ <<merges[2].new, Sink>> \in DOMAIN routeObj[route[merges[2].existing]].edge
  /\ Cardinality(RouteCustomers(routeObj[route[merges[2].new]])) = 3

\* the time added for i put between Source and j, mirroring the Sink-side
\* formula
MirroredTimeDelta(i, j) ==
  Time(G, Source, i) + Time(G, i, j) + ServiceTime(G, i) - Time(G, Source, j)

\* the time the Sink-side formula adds for i attached to j
SinkFormulaTimeDelta(j, i) ==
  Time(G, j, i) + Time(G, i, Sink) + ServiceTime(G, i) - Time(G, j, Sink)

\* what a step that applies the Source-side merge for the current candidate
\* requires and establishes, except for the time attribute
SourceSideMergeStep ==
  LET i == Candidate[1]
      j == Candidate[2]
      before == routeObj[route[j]]
      after == routeObj'[route'[j]]
  IN  /\ ~SinkLegal(i, j)
      /\ HasEdge(G, j, i)
      /\ i \notin Range(processed_nodes)
      /\ successors(before, Source) = {j}
      /\ constraints_met(j, i)
      /\ route'[j] = route[j]
      /\ route'[i] = route[j]
      /\ after.nodes = before.nodes \cup {i}
      /\ DOMAIN after.edge =
           (DOMAIN before.edge \ {<<Source, j>>}) \cup {<<Source, i>>, <<i, j>>}
      /\ Range(processed_nodes') = Range(processed_nodes) \cup {i, j}
      /\ after.graph.cost =
           Plus(before.graph.cost,
                Minus(Plus(Cost(G, Source, i), Cost(G, i, j)), Cost(G, Source, j)))
      /\ DOMAIN after.graph = DOMAIN before.graph
      /\ "load" \in DOMAIN before.graph =>
           after.graph.load = before.graph.load + Demand(G, i)

SourceSideApplied ==
  /\ ProcessStep
  /\ merges' = Append(merges, [existing |-> Candidate[2], new |-> Candidate[1],
                               depot |-> Source])

\* C15 as stated: a Source-side merge for (i,j) is applied only under its
\* conditions, leaves route[j] with i between Source and j, and updates
\* cost, load and time symmetrically to the Sink-side merge, the time by
\* time(Source,i) + time(i,j) + service(i) - time(Source,j).
C15_SourceSideMergeSymmetric ==
  [][SourceSideApplied =>
       /\ SourceSideMergeStep
       /\ "time" \in DOMAIN routeObj[route[Candidate[2]]].graph =>
            routeObj'[route'[Candidate[2]]].graph.time =
              routeObj[route[Candidate[2]]].graph.time
                + MirroredTimeDelta(Candidate[1], Candidate[2])
  ]_vars

\* C15 amended: as above for the conditions, the path, the Processed Set,
\* cost and load; the time is updated with the Sink-side formula
\* time(j,i) + time(i,Sink) + service(i) - time(j,Sink), which is the
\* symmetric update when the times are symmetric.
C15_SourceSideMerge ==
  [][SourceSideApplied =>
       /\ SourceSideMergeStep
       /\ "time" \in DOMAIN routeObj[route[Candidate[2]]].graph =>
            /\ routeObj'[route'[Candidate[2]]].graph.time =
                 routeObj[route[Candidate[2]]].graph.time
                   + SinkFormulaTimeDelta(Candidate[2], Candidate[1])
            /\ SymmetricTimes =>
                 routeObj'[route'[Candidate[2]]].graph.time =
                   routeObj[route[Candidate[2]]].graph.time
                     + MirroredTimeDelta(Candidate[1], Candidate[2])
  ]_vars

\* a Source-side merge under a duration, with times that are not symmetric
C15_Witness ==
  /\ merges # <<>>
  /\ merges[Len(merges)].depot = Source
  /\ handled[Len(handled)] = <<merges[Len(merges)].new, merges[Len(merges)].existing>>
  /\ Truthy(duration)
  /\ ~SymmetricTimes
  /\ <<Source, merges[Len(merges)].new>>
       \in DOMAIN routeObj[route[merges[Len(merges)].existing]].edge
  /\ routeObj[route[merges[Len(merges)].existing]].graph.time
       # PathTime(routeObj[route[merges[Len(merges)].existing]])

\* C16: when neither merge is legal for the current candidate, the step
\* raises no error and leaves the route assignment, every route object
\* (nodes, edges, cost, load, time) and the Processed Set as they were.
C16_SkipChangesNothing ==
  [][(/\ pc = "process_edge"
      /\ idx <= Len(ordered_edges)
      /\ ~SinkLegal(Candidate[1], Candidate[2])
      /\ ~SourceLegal(Candidate[1], Candidate[2]))
     => /\ pc' = "process_edge"
        /\ idx' = idx + 1
        /\ route' = route
        /\ routeObj' = routeObj
        /\ processed_nodes' = processed_nodes
        /\ merges' = merges
  ]_vars

\* the last candidate joined two round trips of unprocessed customers by
\* edges both ways and was skipped: only the feasibility check can have
\* refused it
C16_Witness ==
  /\ handled # <<>>
  /\ merges = <<>>
  /\ processed_nodes = <<>>
  /\ handled[Len(handled)][1] # handled[Len(handled)][2]
  /\ HasEdge(G, handled[Len(handled)][2], handled[Len(handled)][1])
  /\ Truthy(load_capacity) \/ Truthy(duration) \/ Truthy(num_stops)

\* the load and the time of a route: its attribute, or what the attribute
\* would hold where the code did not create it
LoadOf(r) ==
  IF "load" \in DOMAIN r.graph THEN r.graph.load
  ELSE SetSum(RouteCustomers(r), [v \in RouteCustomers(r) |-> Demand(G, v)])

TimeOf(r) == IF "time" \in DOMAIN r.graph THEN r.graph.time ELSE PathTime(r)

\* the four reasons of infeasibility, a limit being configured when it is
\* not None
Infeasible(existing, candidate) ==
  LET r == routeObj[route[existing]] IN
    \/ candidate \in r.nodes
    \/ /\ load_capacity # None
       /\ LoadOf(r) + Demand(G, candidate) > Val(load_capacity)
    \/ /\ duration # None
       /\ TimeOf(r) + Time(G, existing, candidate) + Time(G, candidate, Sink)
            + ServiceTime(G, candidate) - Time(G, existing, Sink) > Val(duration)
    \/ /\ num_stops # None
       /\ Cardinality(RouteCustomers(r)) + 1 > Val(num_stops)

\* C17: while candidates are processed, for every customer edge
\* (existing, candidate) of the Network, constraints_met returns infeasible
\* exactly when the candidate is in existing's route or a configured limit
\* (capacity, duration, stops) would be exceeded, for every combination
\* and value of the limits.
C17_InfeasibleIffSomeLimitExceeded ==
  pc = "process_edge" =>
    \A e \in CandidateEdges : ~constraints_met(e[1], e[2]) <=> Infeasible(e[1], e[2])

\* what is left of run: the phases still to come, then the candidates
\* still to handle
Phase ==
  CASE pc = "initialize_routes" -> 3
    [] pc = "get_savings" -> 2
    [] pc = "process_edge" -> 1
    [] OTHER -> 0

Remaining == Len(ordered_edges) + 1 - idx

\* the guard of some step of run holds
CanStep ==
  \/ pc = "initialize_routes"
  \/ pc = "get_savings"
  \/ pc = "process_edge" /\ idx \in 1..Len(ordered_edges)
  \/ pc = "process_edge" /\ idx = Len(ordered_edges) + 1 /\ Orders(DistinctRoutes) # {}

\* C18: the candidate ordering is computed before any candidate is handled
\* and never changes afterwards; the candidates are handled one per step in
\* list order, each once; finalization happens once, after the last
\* candidate, and nothing follows it; run always terminates: every step
\* brings its end nearer, a step is possible in every state but the final
\* one, and the end comes after as many process_edge steps as candidates.
C18_OnePassThenFinalize ==
  /\ [][/\ ordered_edges' # ordered_edges =>
             pc = "get_savings" /\ handled = <<>> /\ merges = <<>>
        /\ handled' # handled =>
             /\ Len(handled) < Len(ordered_edges)
             /\ handled' = Append(handled, ordered_edges[Len(handled) + 1])
        /\ merges' # merges => handled' # handled
        /\ (best_routes' # best_routes \/ best_value' # best_value \/ pc' = "done") =>
             /\ pc = "process_edge" /\ pc' = "done"
             /\ handled = ordered_edges
             /\ best_routes = <<>> /\ best_value = None
        /\ pc # "done"
        /\ \/ Phase' < Phase
           \/ Phase' = Phase /\ Phase = 1 /\ 0 <= Remaining' /\ Remaining' < Remaining
       ]_vars
  /\ [](pc # "done" => CanStep)
  /\ [](pc = "done" => handled = ordered_edges /\ idx = Len(ordered_edges) + 1)

C18_Witness ==
  /\ pc = "done"
  /\ Len(ordered_edges) = MaxEdges
  /\ handled = ordered_edges
  /\ merges # <<>>
  /\ Len(merges) < Len(handled)
  /\ best_routes # <<>>

AllRouteCustomers(rt, objs) == UNION {RouteCustomers(objs[rt[v]]) : v \in DOMAIN rt}

\* C19: the Processed Set only grows; the customer a merge inserts was not
\* processed and its route was its own initial round trip, with itself as
\* only customer; a merge moves that customer alone and loses no customer;
\* no customer is inserted twice; the number of distinct routes is the
\* number of customers minus the number of merges.
C19_InsertedCustomerIsFresh ==
  /\ [][/\ pc = "process_edge" =>
             /\ Len(processed_nodes) <= Len(processed_nodes')
             /\ SubSeq(processed_nodes', 1, Len(processed_nodes)) = processed_nodes
        /\ MergeStep =>
             LET m == merges'[Len(merges')]
                 own == routeObj[route[m.new]]
             IN  /\ m.new \notin Range(processed_nodes)
                 /\ route[m.new] # route[m.existing]
                 /\ \A v \in DOMAIN route \ {m.new} : route[v] # route[m.new]
                 /\ own.nodes = {Source, m.new, Sink}
                 /\ DOMAIN own.edge = {<<Source, m.new>>, <<m.new, Sink>>}
                 /\ own.graph.cost = Plus(Cost(G, Source, m.new), Cost(G, m.new, Sink))
                 /\ Moved = {m.new}
                 /\ RouteCustomers(routeObj'[route'[m.new]]) =
                      RouteCustomers(routeObj[route[m.existing]]) \cup {m.new}
                 /\ AllRouteCustomers(route', routeObj') = AllRouteCustomers(route, routeObj)
       ]_vars
  /\ [](\A m, n \in DOMAIN merges : m # n => merges[m].new # merges[n].new)
  /\ [](PostInit =>
          Cardinality(DistinctRoutes) = Cardinality(Customers(G)) - Len(merges))

\* two routes of two customers each, and a candidate between them that was
\* handled and joined nothing
C19_Witness ==
  /\ pc = "done"
  /\ Len(merges) = 2
  /\ Cardinality(DistinctRoutes) = 2
  /\ \A id \in DistinctRoutes : Cardinality(RouteCustomers(routeObj[id])) = 2
  /\ \E e \in Range(handled) : route[e[1]] # route[e[2]]

MissingDepotEdges ==
  {<<Source, v>> : v \in {u \in Customers(G) : ~HasEdge(G, Source, u)}}
    \cup {<<v, Sink>> : v \in {u \in Customers(G) : ~HasEdge(G, u, Sink)}}

IsPrefix(s, t) == Len(s) <= Len(t) /\ SubSeq(t, 1, Len(s)) = s

\* C20: RoundTrip.run keeps the nodes, their attributes and every edge of
\* the Network with its attributes, and adds exactly the missing
\* Source -> v and v -> Sink edges, each with the single attribute
\* cost = 10^10, so that every customer has both depot edges afterwards;
\* no step of ClarkWright.run changes the Network.
C20_NetworkFrame ==
  [][/\ pc = "round_trip" =>
          /\ G'.nodes = G.nodes
          /\ G'.node = G.node
          /\ DOMAIN G'.edge = DOMAIN G.edge \cup MissingDepotEdges
          /\ \A e \in DOMAIN G.edge : G'.edge[e] = G.edge[e]
          /\ \A e \in MissingDepotEdges : G'.edge[e] = [cost |-> [hi |-> 1, lo |-> 0]]
          /\ \A n \in Range(G.nodes) :
               /\ IsPrefix(G.succ[n], G'.succ[n])
               /\ Range(G'.succ[n]) = {m \in Range(G.nodes) : <<n, m>> \in DOMAIN G'.edge}
          /\ \A v \in Customers(G) :
               <<Source, v>> \in DOMAIN G'.edge /\ <<v, Sink>> \in DOMAIN G'.edge
     /\ pc \in {"initialize_routes", "get_savings", "process_edge"} => G' = G
  ]_vars

\* after RoundTrip.run on a Network that had some depot edges and lacked
\* others, next to a customer edge
C20_Witness ==
  /\ pc = "done"
  /\ round_trips # <<>>
  /\ CandidateEdges # {}
  /\ \E v \in Customers(G) : G.edge[<<Source, v>>] = [cost |-> Penalty]
  /\ \E v \in Customers(G) : G.edge[<<v, Sink>>] = [cost |-> Penalty]
  /\ \E v \in Customers(G) : "time" \in DOMAIN G.edge[<<Source, v>>]
  /\ \E v \in Customers(G) : "time" \in DOMAIN G.edge[<<v, Sink>>]

====
